---------------------------- MODULE Spec2Model ----------------------------
(***************************************************************************)
(* Client session guard and file operations of app/static/script.js.       *)
(*                                                                         *)
(* The script defines upload, loadUserFiles, deleteFile, checkAuth,        *)
(* logout, getCurrentUser and showUsernameInNav twice; a later function    *)
(* declaration of a classic script replaces the earlier one, so the        *)
(* functions that run are the second copies (lines 194-480).               *)
(*                                                                         *)
(* One page of the application is modelled together with the storage it    *)
(* shares with other pages (localStorage) and the backend it talks to.     *)
(* Every await of a fetch is a point where the function is suspended: the  *)
(* request is put in `inflight` and the rest of the function runs in the   *)
(* action that delivers the response.  Code between two awaits runs in one *)
(* action, as it does on the single-threaded event loop.                   *)
(*                                                                         *)
(* The DOM is only written by the script, never read back, so DOM writes   *)
(* are recorded as outputs of the step (ev.dom), as are the requests a     *)
(* step sends (ev.sent) and the window.location.replace calls it makes     *)
(* (ev.redir).                                                             *)
(*                                                                         *)
(* Spec is the page with every operation interleaved.  SpecFixed is a      *)
(* chain of page loads driven by checkAuth against a backend whose answers *)
(* do not change.  SpecChart applies renderChart to each series and canvas *)
(* of a bounded set; its numbers are IEEE-754 doubles.                     *)
(***************************************************************************)
EXTENDS Integers, Sequences, FiniteSets, Bags, TLC

VARIABLES
    path,        \* window.location.pathname of the loaded page
    token,       \* localStorage 'token' (Null when absent)
    boot_id,     \* localStorage 'boot_id' (Null when absent)
    serverBoot,  \* backend: the boot id GET /meta/boot answers with
    valid,       \* backend: the tokens it accepts as bearer credentials
    inflight,    \* bag of requests sent by this page and not yet answered
    nav,         \* target of the last window.location.replace of this page load
    run,         \* this page load's run of checkAuth: position, boot_id it left
    ev,          \* what the last step did (operation, outcome, outputs)
    chart,       \* the call of renderChart in the last step: the canvas
                 \* 'engagement-chart' it found, its series, the context
                 \* calls it issued and whether it threw
    fixed,       \* backend answers held fixed over a chain of page loads
    hops         \* redirects of checkAuth the browser followed in the chain

vars == <<path, token, boot_id, serverBoot, valid, inflight, nav, run, ev,
          chart, fixed, hops>>

-----------------------------------------------------------------------------
(* Bounds and value sets *)

\* a user-started operation is admitted while fewer requests of user-started
\* operations (and of the list refreshes they or checkAuth start) are pending
MaxPending == 1

\* localStorage.getItem of an absent key
Null == "null"

Tokens == {"t1"}

BootIds == {"b1", "b2"}

\* file ids offered to deleteFile / analyzeFile
FileIds == {1}

\* pathnames a page of the site can be loaded with
Paths == {"/", "/auth", "/upload", "/profile/", "/algorithm", "/about",
          "/upload//"}

\* outcome of a fetch: 2xx, non-2xx, or a rejected promise (network error,
\* or a body that res.json() cannot parse)
Outcomes == {"ok", "err", "neterr"}

\* redirects the browser follows in a chain of page loads
MaxHops == 2

\* points of a series given to renderChart
MaxPoints == 2

-----------------------------------------------------------------------------
(* String helpers of the path tests *)

\* String.prototype.endsWith
EndsWith(s, suf) ==
    Len(s) >= Len(suf) /\ SubSeq(s, Len(s) - Len(suf) + 1, Len(s)) = suf

\* String.prototype.startsWith
StartsWith(s, pre) ==
    Len(s) >= Len(pre) /\ SubSeq(s, 1, Len(pre)) = pre

\* mutant of NormalizePath: strips every trailing slash
RECURSIVE NormalizePathAll(_)
NormalizePathAll(p) ==
    IF p = "" THEN "/"
    ELSE IF Len(p) > 1 /\ EndsWith(p, "/")
         THEN NormalizePathAll(SubSeq(p, 1, Len(p) - 1))
         ELSE p

\* let path = window.location.pathname || '/';
\* if (path.length > 1 && path.endsWith('/')) path = path.slice(0, -1);
NormalizePath(p) ==
    LET q == IF p = "" THEN "/" ELSE p
    IN  IF Len(q) > 1 /\ EndsWith(q, "/") THEN SubSeq(q, 1, Len(q) - 1) ELSE q

onAuthPage(p) == p = "/" \/ p = "/auth" \/ StartsWith(p, "/auth?")

onUploadPage(p) == p = "/upload" \/ StartsWith(p, "/upload?")

onProfilePage(p) == p = "/profile" \/ StartsWith(p, "/profile?")

onAlgorithmPage(p) == p = "/algorithm" \/ StartsWith(p, "/algorithm?")

\* mutant of onPrivatePage: only the upload page counts as private
onPrivatePageUploadOnly(p) == onUploadPage(p)

\* the test `onUploadPage || onProfilePage || onAlgorithmPage`
onPrivatePage(p) == onUploadPage(p) \/ onProfilePage(p) \/ onAlgorithmPage(p)

-----------------------------------------------------------------------------
(* Requests and step records *)

\* a fetch awaited by a function: its endpoint and Authorization header, and
\* errEl, for analyzeFile, whether the `errEl` it holds across the await is an
\* element (getElementById('chart-error') found one)
Req(op, ep, id, bearer) ==
    [op |-> op, ep |-> ep, id |-> id, bearer |-> bearer, errEl |-> FALSE]

\* fetch('/meta/boot') of checkAuth: no Authorization header
BootReq == Req("checkAuth.boot", "/meta/boot", 0, Null)

\* fetch('/media/files', Bearer token) of checkAuth
ValidateReq(tok) == Req("checkAuth.validate", "/media/files", 0, tok)

\* fetch('/media/files', Bearer token) of loadUserFiles
ListReq(tok) == Req("loadUserFiles", "/media/files", 0, tok)

\* fetch('/auth/me', Bearer token) of getCurrentUser, awaited by `caller`
MeReq(caller, tok) == Req(caller, "/auth/me", 0, tok)

\* the backend answers 2xx on a protected endpoint only to a token it accepts
CanAnswer(r, out) ==
    out = "ok" => (r.ep = "/meta/boot" \/ r.bearer \in valid)

RECURSIVE AddAll(_, _)
AddAll(bag, reqs) ==
    IF reqs = <<>> THEN bag
    ELSE AddAll(bag (+) SetToBag({Head(reqs)}), Tail(reqs))

\* the response to r is delivered and the requests in `reqs` are sent
Exchange(r, reqs) == AddAll(inflight (-) SetToBag({r}), reqs)

\* what a step did: the operation, the outcome of the fetch it resumed from
\* (and, for an answer of the analyze endpoint, its body), the bearer token
\* of that fetch, the token and boot_id in storage when the step began,
\* whether the `errEl` of analyzeFile is an element, and the step's outputs
Event(op, out, bearer, sent, redir, dom) ==
    [op |-> op, out |-> out, body |-> "none", bearer |-> bearer,
     stored |-> token, prev |-> boot_id, errEl |-> FALSE, sent |-> sent,
     redir |-> redir, dom |-> dom]

\* a step of the environment: the script did nothing
Idle ==
    [op |-> "env", out |-> "none", body |-> "none", bearer |-> Null,
     stored |-> Null, prev |-> Null, errEl |-> FALSE, sent |-> <<>>,
     redir |-> <<>>, dom |-> <<>>]

\* document.getElementById('engagement-chart'): absent, or a canvas with its
\* width and height attributes
NoCanvas == [present |-> FALSE, w |-> 0, h |-> 0]

\* renderChart not called, with the canvas it would find
Fresh(canvas) ==
    [canvas |-> canvas, series |-> <<>>, calls |-> <<>>, done |-> FALSE,
     threw |-> FALSE]

\* the chart after a step that did not call renderChart
NoChart == Fresh(NoCanvas)

\* the last location.replace of the step decides where the page goes
NavAfter(redir) == IF redir = <<>> THEN nav ELSE redir[Len(redir)]

-----------------------------------------------------------------------------
(* checkAuth (lines 342-441) *)

Effect(tok, redir, sent, dom, pc) ==
    [token |-> tok, redir |-> redir, sent |-> sent, dom |-> dom, pc |-> pc]

\* the block that reveals tabs and login-form and hides register-form; it
\* acts on the elements when the page has all three
RevealForms == <<"showForms">>

\* mutant of BootChanged: the comparison is inverted
BootChangedInverted(prev, got) == prev # Null /\ prev = got

\* `prevBoot && prevBoot !== boot_id`
BootChanged(prev, got) == prev # Null /\ prev # got

\* mutant of ProbeEffect: boot_id is written only when a restart was detected
ProbeEffectWriteOnChange(out, got, tok, prev) ==
    IF out = "ok" /\ BootChanged(prev, got)
    THEN [token |-> Null, boot_id |-> got]
    ELSE [token |-> tok, boot_id |-> prev]

\* mutant of ProbeEffect: the boot id is stored under the key 'token'
ProbeEffectWrongKey(out, got, tok, prev) ==
    IF out = "ok"
    THEN [token |-> IF BootChanged(prev, got) THEN Null ELSE got, boot_id |-> got]
    ELSE [token |-> tok, boot_id |-> prev]

\* mutant of ProbeEffect: a failed probe is taken for a restart
ProbeEffectFailClears(out, got, tok, prev) ==
    IF out = "ok"
    THEN [token |-> IF BootChanged(prev, got) THEN Null ELSE tok, boot_id |-> got]
    ELSE [token |-> Null, boot_id |-> prev]

\* step 1: the try block around fetch('/meta/boot'); `got` is the boot_id of
\* the response body, `tok` and `prev` the stored token and boot_id
ProbeEffect(out, got, tok, prev) ==
    IF out = "ok"
    THEN [token |-> IF BootChanged(prev, got) THEN Null ELSE tok, boot_id |-> got]
    ELSE [token |-> tok, boot_id |-> prev]

\* step 2: `if (!token) {...}` and, with a token, the validation fetch;
\* p is the normalised path, tok the token read after step 1
TokenCheck(p, tok) ==
    IF tok = Null
    THEN IF onPrivatePage(p)
         THEN Effect(tok, <<"/auth">>, <<>>, <<>>, "done")
         ELSE Effect(tok, <<>>, <<>>, RevealForms, "done")
    ELSE Effect(tok, <<>>, <<ValidateReq(tok)>>, <<>>, "validate")

\* getCurrentUser up to its await: no request without a stored token
getCurrentUser(caller, stored) ==
    IF stored = Null THEN <<>> ELSE <<MeReq(caller, stored)>>

\* mutant of ValidateEffect: a rejected token is left in storage
ValidateEffectKeepsToken(out, p, stored) ==
    IF out = "ok"
    THEN IF onAuthPage(p) THEN Effect(stored, <<"/upload">>, <<>>, <<>>, "done")
         ELSE IF onPrivatePage(p)
              THEN Effect(stored, <<>>,
                          <<ListReq(stored)>> \o getCurrentUser("checkAuth.me", stored),
                          <<>>, IF stored = Null THEN "done" ELSE "me")
              ELSE Effect(stored, <<>>, <<>>, <<>>, "done")
    ELSE IF onPrivatePage(p)
         THEN Effect(stored, <<"/auth">>, <<>>, <<>>, "done")
         ELSE Effect(stored, <<>>, <<>>, RevealForms, "done")

\* mutant of ValidateEffect: a valid token redirects to /upload from every
\* page, the upload page included
ValidateEffectNoPageTest(out, p, stored) ==
    IF out = "ok"
    THEN Effect(stored, <<"/upload">>, <<>>, <<>>, "done")
    ELSE IF out = "err"
    THEN IF onPrivatePage(p)
         THEN Effect(Null, <<"/auth">>, <<>>, <<>>, "done")
         ELSE Effect(Null, <<>>, <<>>, RevealForms, "done")
    ELSE IF onUploadPage(p)
         THEN Effect(Null, <<"/auth">>, <<>>, <<>>, "done")
         ELSE Effect(Null, <<>>, <<>>, RevealForms, "done")

\* mutant of ValidateEffect: a valid token on a private page refreshes the
\* file list twice
ValidateEffectTwoLists(out, p, stored) ==
    IF out = "ok"
    THEN IF onAuthPage(p) THEN Effect(stored, <<"/upload">>, <<>>, <<>>, "done")
         ELSE IF onPrivatePage(p)
              THEN Effect(stored, <<>>,
                          <<ListReq(stored), ListReq(stored)>>
                              \o getCurrentUser("checkAuth.me", stored),
                          <<>>, IF stored = Null THEN "done" ELSE "me")
              ELSE Effect(stored, <<>>, <<>>, <<>>, "done")
    ELSE IF out = "err"
    THEN IF onPrivatePage(p)
         THEN Effect(Null, <<"/auth">>, <<>>, <<>>, "done")
         ELSE Effect(Null, <<>>, <<>>, RevealForms, "done")
    ELSE IF onUploadPage(p)
         THEN Effect(Null, <<"/auth">>, <<>>, <<>>, "done")
         ELSE Effect(Null, <<>>, <<>>, RevealForms, "done")

\* step 3: what follows the validation fetch; `stored` is the token in
\* storage when the response arrives (loadUserFiles and getCurrentUser read
\* it again)
ValidateEffect(out, p, stored) ==
    IF out = "ok"
    THEN IF onAuthPage(p) THEN Effect(stored, <<"/upload">>, <<>>, <<>>, "done")
         ELSE IF onPrivatePage(p)
              THEN Effect(stored, <<>>,
                          <<ListReq(stored)>> \o getCurrentUser("checkAuth.me", stored),
                          <<>>, IF stored = Null THEN "done" ELSE "me")
              ELSE Effect(stored, <<>>, <<>>, <<>>, "done")
    ELSE IF out = "err"
    THEN \* res.ok is false: all three private pages redirect
         IF onPrivatePage(p)
         THEN Effect(Null, <<"/auth">>, <<>>, <<>>, "done")
         ELSE Effect(Null, <<>>, <<>>, RevealForms, "done")
    ELSE \* catch (e): only the upload page redirects
         IF onUploadPage(p)
         THEN Effect(Null, <<"/auth">>, <<>>, <<>>, "done")
         ELSE Effect(Null, <<>>, <<>>, RevealForms, "done")

\* a fresh run of checkAuth, suspended on fetch('/meta/boot')
NewRun(prev) == [pc |-> "boot", boot |-> prev]

\* the probe is answered; steps 1 and 2 run up to the next await or return
checkAuth_probe(out) ==
    /\ BagIn(BootReq, inflight)
    /\ CanAnswer(BootReq, out)
    /\ LET pe == ProbeEffect(out, serverBoot, token, boot_id)
           te == TokenCheck(NormalizePath(path), pe.token)
       IN  /\ token' = te.token
           /\ boot_id' = pe.boot_id
           /\ inflight' = Exchange(BootReq, te.sent)
           /\ nav' = NavAfter(te.redir)
           /\ run' = [pc |-> te.pc, boot |-> pe.boot_id]
           /\ ev' = Event("checkAuth.boot", out, Null, te.sent, te.redir, te.dom)
    /\ chart' = NoChart
    /\ UNCHANGED <<path, serverBoot, valid, fixed, hops>>

\* the validation request is answered; step 3 runs up to `await getCurrentUser()`
checkAuth_validate(out) ==
    \E r \in BagToSet(inflight) :
        /\ r.op = "checkAuth.validate"
        /\ CanAnswer(r, out)
        /\ LET ve == ValidateEffect(out, NormalizePath(path), token)
           IN  /\ token' = ve.token
               /\ inflight' = Exchange(r, ve.sent)
               /\ nav' = NavAfter(ve.redir)
               /\ run' = [run EXCEPT !.pc = ve.pc]
               /\ ev' = Event("checkAuth.validate", out, r.bearer, ve.sent, ve.redir, ve.dom)
        /\ chart' = NoChart
        /\ UNCHANGED <<path, boot_id, serverBoot, valid, fixed, hops>>

\* what a 2xx answer of /auth/me parses to: an object with a truthy
\* `username`, or anything else ({}, {username: ""}, {username: 0}, null)
MeBodies == {"username", "nousername"}

\* the answers of /auth/me: only the body of a 2xx answer is parsed, `if
\* (!res.ok) return null`
MeAnswers ==
    {[out |-> "ok", body |-> body] : body \in MeBodies}
        \cup {[out |-> out, body |-> "nousername"] : out \in {"err", "neterr"}}

\* getCurrentUser after its fetch, and the username write of the caller
\* `if (nameEl && me && me.username)`; a non-2xx answer gives null, a
\* rejection is swallowed by the caller's catch; nameEl is whether the page
\* has the element 'profile-username'
UsernameWrite(out, body, nameEl) ==
    IF nameEl /\ out = "ok" /\ body = "username" THEN <<"username">> ELSE <<>>

\* /auth/me is answered to the getCurrentUser awaited by checkAuth
checkAuth_me(out, body, nameEl) ==
    \E r \in BagToSet(inflight) :
        /\ r.op = "checkAuth.me"
        /\ CanAnswer(r, out)
        /\ inflight' = Exchange(r, <<>>)
        /\ run' = [run EXCEPT !.pc = "done"]
        /\ out # "ok" => body = "nousername"
        /\ ev' = Event("checkAuth.me", out, r.bearer, <<>>, <<>>,
                       UsernameWrite(out, body, nameEl))
        /\ chart' = NoChart
        /\ UNCHANGED <<path, token, boot_id, serverBoot, valid, nav, fixed,
                       hops>>

-----------------------------------------------------------------------------
(* Numbers (the arithmetic of lines 265-303) *)

\* JavaScript numbers are IEEE-754 doubles.  A natural number is a sequence of
\* limbs below Base, least significant first, without leading zero limb; a
\* finite double is s * m * 2^e with m such a natural, odd or zero.  Zero
\* carries no sign.
Base == 32768

LimbBits == 15

\* the largest element of a non-empty set of integers
MaxIn(S) == CHOOSE i \in S : \A j \in S : j <= i

MinIn(S) == CHOOSE i \in S : \A j \in S : i <= j

\* a without its leading zero limbs
Trim(a) ==
    LET nz == {i \in 1..Len(a) : a[i] # 0}
    IN  IF nz = {} THEN <<>> ELSE SubSeq(a, 1, MaxIn(nz))

RECURSIVE Nat2Big(_)
Nat2Big(k) == IF k = 0 THEN <<>> ELSE <<k % Base>> \o Nat2Big(k \div Base)

Limb(a, i) == IF i <= Len(a) THEN a[i] ELSE 0

\* -1, 0, 1 as a < b, a = b, a > b
BCmp(a, b) ==
    IF Len(a) # Len(b) THEN (IF Len(a) < Len(b) THEN -1 ELSE 1)
    ELSE LET D == {i \in 1..Len(a) : a[i] # b[i]}
         IN  IF D = {} THEN 0
             ELSE IF a[MaxIn(D)] < b[MaxIn(D)] THEN -1 ELSE 1

\* the carry into limb i of a sum whose limb sums are t: some lower limb
\* overflows and every limb between passes the carry on
CarryIn(t, i) ==
    \E j \in 1..(i - 1) :
        /\ t[j] >= Base
        /\ \A l \in (j + 1)..(i - 1) : t[l] = Base - 1

BAdd(a, b) ==
    LET n == (IF Len(a) < Len(b) THEN Len(b) ELSE Len(a)) + 1
        t == [i \in 1..n |-> Limb(a, i) + Limb(b, i)]
    IN  Trim([i \in 1..n |->
                 (t[i] + (IF CarryIn(t, i) THEN 1 ELSE 0)) % Base])

\* the borrow from limb i of a - b
BorrowIn(a, b, i) ==
    \E j \in 1..(i - 1) :
        /\ a[j] < Limb(b, j)
        /\ \A l \in (j + 1)..(i - 1) : a[l] = Limb(b, l)

\* a - b for a >= b
BSub(a, b) ==
    IF b = <<>> THEN a
    ELSE Trim([i \in 1..Len(a) |->
                  LET t == a[i] - Limb(b, i)
                               - (IF BorrowIn(a, b, i) THEN 1 ELSE 0)
                  IN  IF t < 0 THEN t + Base ELSE t])

\* a * k for a limb k
BMulLimb(a, k) ==
    IF k = 0 \/ a = <<>> THEN <<>>
    ELSE BAdd([i \in 1..Len(a) |-> (a[i] * k) % Base],
              <<0>> \o [i \in 1..Len(a) |-> (a[i] * k) \div Base])

ShiftLimbs(a, n) == IF a = <<>> THEN <<>> ELSE [i \in 1..n |-> 0] \o a

\* a times the limbs i..j of b, each at its place
RECURSIVE MulFrom(_, _, _, _)
MulFrom(a, b, i, j) ==
    IF i > j THEN <<>>
    ELSE IF i = j THEN ShiftLimbs(BMulLimb(a, b[i]), i - 1)
    ELSE LET h == (i + j) \div 2
         IN  BAdd(MulFrom(a, b, i, h), MulFrom(a, b, h + 1, j))

BMul(a, b) == IF a = <<>> \/ b = <<>> THEN <<>> ELSE MulFrom(a, b, 1, Len(b))

\* a * 2^n
BShl(a, n) == ShiftLimbs(BMulLimb(a, 2 ^ (n % LimbBits)), n \div LimbBits)

\* the limbs i..j of a, with r carried in from the limbs above, by a limb k
\* (r is never negative: the test has r evaluated before the limbs are divided)
RECURSIVE DivLimbFrom(_, _, _, _, _)
DivLimbFrom(a, k, i, j, r) ==
    IF r < 0 THEN [q |-> <<>>, r |-> r]
    ELSE IF i = j
    THEN [q |-> <<(r * Base + a[i]) \div k>>, r |-> (r * Base + a[i]) % k]
    ELSE LET h  == (i + j) \div 2
             hi == DivLimbFrom(a, k, h + 1, j, r)
             lo == DivLimbFrom(a, k, i, h, hi.r)
         IN  [q |-> lo.q \o hi.q, r |-> lo.r]

\* quotient and remainder of a by a limb k
BDivLimb(a, k) ==
    IF a = <<>> THEN [q |-> <<>>, r |-> 0]
    ELSE LET d == DivLimbFrom(a, k, 1, Len(a), 0) IN [q |-> Trim(d.q), r |-> d.r]

\* floor(a / 2^n), and whether a non-zero bit was dropped
BShr(a, n) ==
    LET nl == n \div LimbBits
        p  == 2 ^ (n % LimbBits)
        hi == IF nl >= Len(a) THEN <<>> ELSE SubSeq(a, nl + 1, Len(a))
        lo == IF nl >= Len(a) THEN a ELSE SubSeq(a, 1, nl)
    IN  [q    |-> Trim([i \in 1..Len(hi) |->
                           (hi[i] \div p) + (Limb(hi, i + 1) % p) * (Base \div p)]),
         lost |-> \/ hi # <<>> /\ hi[1] % p # 0
                  \/ \E i \in 1..Len(lo) : lo[i] # 0]

RECURSIVE BitsOf(_)
BitsOf(k) == IF k = 0 THEN 0 ELSE 1 + BitsOf(k \div 2)

BitLen(a) ==
    IF a = <<>> THEN 0 ELSE LimbBits * (Len(a) - 1) + BitsOf(a[Len(a)])

IsOdd(a) == a # <<>> /\ a[1] % 2 = 1

\* the number of trailing zero bits of a limb k > 0
RECURSIVE LowZeros(_)
LowZeros(k) == IF k % 2 = 1 THEN 0 ELSE 1 + LowZeros(k \div 2)

\* the number of trailing zero bits of a > 0
TrailingZeros(a) ==
    LET i == MinIn({j \in 1..Len(a) : a[j] # 0})
    IN  LimbBits * (i - 1) + LowZeros(a[i])

\* the largest g in lo..hi with g * d <= r
RECURSIVE QuotDigit(_, _, _, _)
QuotDigit(r, d, lo, hi) ==
    IF lo = hi THEN lo
    ELSE LET mid == (lo + hi + 1) \div 2
         IN  IF BCmp(BMulLimb(d, mid), r) <= 0 THEN QuotDigit(r, d, mid, hi)
             ELSE QuotDigit(r, d, lo, mid - 1)

\* k further limbs of the quotient by d, q being the limbs found and r the
\* remainder left; and whether a remainder is left at the end (the lengths of
\* q and r are never negative: the tests have both evaluated at every level)
RECURSIVE QuotLimbs(_, _, _, _)
RECURSIVE QuotTake(_, _, _, _, _)
QuotLimbs(r, d, k, q) ==
    IF k = 0 \/ Len(q) < 0 \/ Len(r) < 0
    THEN [q |-> Trim(q), lost |-> r # <<>>]
    ELSE IF r = <<>> THEN [q |-> Trim(ShiftLimbs(q, k)), lost |-> FALSE]
    ELSE QuotTake(ShiftLimbs(r, 1), d, k, q,
                  QuotDigit(ShiftLimbs(r, 1), d, 0, Base - 1))

\* the limb g is taken from r
QuotTake(r, d, k, q, g) ==
    QuotLimbs(BSub(r, BMulLimb(d, g)), d, k - 1, <<g>> \o q)

Zero == [k |-> "fin", s |-> 1, m |-> <<>>, e |-> 0]

NaN == [k |-> "nan", s |-> 1, m |-> <<>>, e |-> 0]

Infinity(s) == [k |-> "inf", s |-> s, m |-> <<>>, e |-> 0]

\* s * M * 2^E as a double, M of at most 53 bits above the subnormal grid
Pack(s, M, E) ==
    IF M = <<>> THEN Zero
    ELSE IF E + BitLen(M) - 1 > 1023 THEN Infinity(s)
    ELSE LET z == TrailingZeros(M)
         IN  [k |-> "fin", s |-> s, m |-> BShr(M, z).q, e |-> E + z]

\* the double nearest to s * (M + f) * 2^E with 0 <= f < 1 and f > 0 exactly
\* when `sticky`; of two equally near the one with the even mantissa
Round(s, M, E, sticky) ==
    LET L  == BitLen(M)
        sh == IF L - 53 > -1074 - E THEN L - 53 ELSE -1074 - E
    IN  IF sh <= 0 THEN Pack(s, M, E)
        ELSE LET t  == BShr(M, sh - 1)
                 q  == BShr(t.q, 1).q
                 up == IsOdd(t.q) /\ (t.lost \/ sticky \/ IsOdd(q))
             IN  Pack(s, IF up THEN BAdd(q, <<1>>) ELSE q, E + sh)

Abs(k) == IF k < 0 THEN -k ELSE k

\* an integer as a double
Num(k) == Pack(IF k < 0 THEN -1 ELSE 1, Nat2Big(Abs(k)), 0)

Neg(a) == IF a.k = "nan" \/ (a.k = "fin" /\ a.m = <<>>) THEN a ELSE [a EXCEPT !.s = -@]

IsZero(a) == a.k = "fin" /\ a.m = <<>>

\* position above the leading bit of a finite non-zero double
Top(a) == a.e + BitLen(a.m)

\* |a| against |b| for finite non-zero doubles
CmpMag(a, b) ==
    IF Top(a) # Top(b) THEN (IF Top(a) < Top(b) THEN -1 ELSE 1)
    ELSE LET e0 == IF a.e < b.e THEN a.e ELSE b.e
         IN  BCmp(BShl(a.m, a.e - e0), BShl(b.m, b.e - e0))

\* the sum of two finite non-zero doubles, hi the one of larger magnitude
AddFinite(hi, lo) ==
    IF Top(lo) <= hi.e - 60
    THEN \* lo is below the last bit kept: it only decides the rounding
         LET M == BShl(hi.m, 60)
         IN  IF hi.s = lo.s THEN Round(hi.s, M, hi.e - 60, TRUE)
             ELSE Round(hi.s, BSub(M, <<1>>), hi.e - 60, TRUE)
    ELSE LET e0 == IF hi.e < lo.e THEN hi.e ELSE lo.e
             Mh == BShl(hi.m, hi.e - e0)
             Ml == BShl(lo.m, lo.e - e0)
         IN  IF hi.s = lo.s THEN Round(hi.s, BAdd(Mh, Ml), e0, FALSE)
             ELSE Round(hi.s, BSub(Mh, Ml), e0, FALSE)

\* a + b
Add(a, b) ==
    IF a.k = "nan" \/ b.k = "nan" THEN NaN
    ELSE IF a.k = "inf" THEN (IF b.k = "inf" /\ b.s # a.s THEN NaN ELSE a)
    ELSE IF b.k = "inf" THEN b
    ELSE IF IsZero(a) THEN b
    ELSE IF IsZero(b) THEN a
    ELSE IF CmpMag(a, b) >= 0 THEN AddFinite(a, b) ELSE AddFinite(b, a)

\* a - b
Sub(a, b) == Add(a, Neg(b))

\* a * b
Mul(a, b) ==
    IF a.k = "nan" \/ b.k = "nan" THEN NaN
    ELSE IF a.k = "inf" \/ b.k = "inf"
         THEN (IF IsZero(a) \/ IsZero(b) THEN NaN ELSE Infinity(a.s * b.s))
    ELSE IF IsZero(a) \/ IsZero(b) THEN Zero
    ELSE Round(a.s * b.s, BMul(a.m, b.m), a.e + b.e, FALSE)

\* a / b
Div(a, b) ==
    IF a.k = "nan" \/ b.k = "nan" THEN NaN
    ELSE IF a.k = "inf" THEN (IF b.k = "inf" THEN NaN ELSE Infinity(a.s * b.s))
    ELSE IF b.k = "inf" THEN Zero
    ELSE IF IsZero(b) THEN (IF IsZero(a) THEN NaN ELSE Infinity(a.s))
    ELSE IF IsZero(a) THEN Zero
    ELSE LET La == BitLen(a.m)
             Lb == BitLen(b.m)
             A  == BShl(a.m, 53 - La)
             B  == BShl(b.m, 53 - Lb)
             qb == QuotTake(A, B, 5, <<>>, QuotDigit(A, B, 0, 1))
         IN  Round(a.s * b.s, qb.q, a.e - b.e + La - Lb - 4 * LimbBits,
                   qb.lost)

\* a < b for doubles other than NaN
Less(a, b) ==
    LET sa == IF IsZero(a) THEN 0 ELSE a.s
        sb == IF IsZero(b) THEN 0 ELSE b.s
    IN  IF sa # sb THEN sa < sb
        ELSE IF sa = 0 THEN FALSE
        ELSE IF a.k = "inf" \/ b.k = "inf"
             THEN a.k # b.k /\ ((sa = 1) = (b.k = "inf"))
        ELSE (sa = 1 /\ CmpMag(a, b) < 0) \/ (sa = -1 /\ CmpMag(a, b) > 0)

\* Math.max and Math.min of two numbers
MathMax(a, b) ==
    IF a.k = "nan" \/ b.k = "nan" THEN NaN ELSE IF Less(a, b) THEN b ELSE a

MathMin(a, b) ==
    IF a.k = "nan" \/ b.k = "nan" THEN NaN ELSE IF Less(b, a) THEN b ELSE a

\* Math.min(...times) and Math.max(...times) of a non-empty array
RECURSIVE MinOf(_)
MinOf(s) == IF Len(s) = 1 THEN s[1] ELSE MathMin(s[1], MinOf(Tail(s)))

RECURSIVE MaxOf(_)
MaxOf(s) == IF Len(s) = 1 THEN s[1] ELSE MathMax(s[1], MaxOf(Tail(s)))

\* the decimal digits of a natural, the most significant first
RECURSIVE Digits(_)
Digits(a) ==
    IF a = <<>> THEN <<>>
    ELSE LET d == BDivLimb(a, 10) IN Append(Digits(d.q), d.r)

\* digits as text
RECURSIVE Text(_)
Text(ds) == IF ds = <<>> THEN "" ELSE ToString(Head(ds)) \o Text(Tail(ds))

\* 10^j
RECURSIVE Pow10(_)
Pow10(j) ==
    IF j <= 9 THEN Nat2Big(10 ^ j)
    ELSE LET h == Pow10(j \div 2)
         IN  BMulLimb(BMul(h, h), IF j % 2 = 1 THEN 10 ELSE 1)

\* floor(a / d) for a / d below Base^4
BQuot(a, d) ==
    IF BCmp(a, d) < 0 THEN <<>>
    ELSE QuotLimbs(a, ShiftLimbs(d, 4), 4, <<>>).q

\* the number of decimal digits of a > 0
DigitCount(a) ==
    LET c == ((BitLen(a) - 1) * 1233) \div 4096
    IN  IF BCmp(a, Pow10(c + 1)) < 0 THEN c + 1
        ELSE IF BCmp(a, Pow10(c + 2)) < 0 THEN c + 2
        ELSE c + 3

\* of the candidates lo and lo + 1, which are rem below and step - rem above
\* the number: those read back as its double, being nearer to it than the
\* distance dn below and up above, or as near when `incl`; of two the nearer
\* one, the even one when equally near
Pick(lo, rem, step, dn, up, incl) ==
    LET gap  == BSub(step, rem)
        okLo == BCmp(rem, dn) < 0 \/ (incl /\ BCmp(rem, dn) = 0)
        okHi == BCmp(gap, up) < 0 \/ (incl /\ BCmp(gap, up) = 0)
        hi   == BAdd(lo, <<1>>)
    IN  IF okLo /\ okHi
        THEN [ok |-> TRUE,
              s  |-> IF BCmp(rem, gap) < 0 THEN lo
                     ELSE IF BCmp(rem, gap) > 0 THEN hi
                     ELSE IF IsOdd(lo) THEN hi ELSE lo]
        ELSE [ok |-> okLo \/ okHi, s |-> IF okLo THEN lo ELSE hi]

\* for the integer X = q * P + r of 17 digits q before the power of ten P:
\* the numbers of k digits before a power of ten next to X that are read
\* back as the double of X
Nearest(P, q, r, k, dn, up, incl) ==
    LET T  == Pow10(17 - k)
        lo == BQuot(q, T)
    IN  Pick(lo, BAdd(BMul(P, BSub(q, BMul(T, lo))), r), BMul(P, T),
             dn, up, incl)

\* the fewest digits that are read back as the double of X (17 always are)
Fewest(P, q, r, dn, up, incl) ==
    MinIn({k \in 1..17 : Nearest(P, q, r, k, dn, up, incl).ok})

\* the digits c.s, c.k of them, of a number of n digits in exponent notation
Exponential(c, n) ==
    LET ten == BCmp(c.s, Pow10(c.k)) = 0
        ds  == IF ten THEN <<1>> ELSE Digits(c.s)
    IN  ToString(Head(ds))
            \o (IF Len(ds) > 1 THEN "." \o Text(Tail(ds)) ELSE "")
            \o "e+" \o ToString(IF ten THEN n ELSE n - 1)

\* the shortest digits of X = q * P + r
Shortest(P, q, r, k, dn, up, incl) ==
    [s |-> Nearest(P, q, r, k, dn, up, incl).s, k |-> k]

\* as ExponentForm, for X = q * P + r
ExponentOf(P, q, r, n, dn, up, incl) ==
    Exponential(Shortest(P, q, r, Fewest(P, q, r, dn, up, incl), dn, up, incl),
                n)

\* as ExponentForm, from the power of ten P below the first 17 digits of X
ExponentFrom(X, P, q, n, dn, up, incl) ==
    ExponentOf(P, q, BSub(X, BMul(P, q)), n, dn, up, incl)

\* as ExponentForm, from the distance up to the middle between the double
\* and the next one
ExponentUp(a, X, P, n, up) ==
    ExponentFrom(X, P, BQuot(X, P), n,
                 IF a.m = <<1>> THEN BShr(up, 1).q ELSE up, up,
                 BitLen(a.m) < 53)

\* Number::toString of a finite double a of magnitude at least 1e21, without
\* its sign: the shortest digits that are read back as the same double, in
\* exponent notation; X is the integer |a| and n the number of its digits
ExponentForm(a, X, n) ==
    ExponentUp(a, X, Pow10(n - 17), n, BShl(<<1>>, a.e + BitLen(a.m) - 54))

\* Number.prototype.toFixed(0): below 1e21 the nearest integer, the one
\* farther from zero of two equally near, as decimal digits; from 1e21 on
\* the text of the number itself
toFixed0(a) ==
    IF a.k = "nan" THEN "NaN"
    ELSE IF a.k = "inf" THEN (IF a.s < 0 THEN "-Infinity" ELSE "Infinity")
    ELSE LET n == IF a.e >= 0 THEN BShl(a.m, a.e)
                  ELSE LET t == BShr(a.m, -a.e - 1)
                       IN  IF IsOdd(t.q) THEN BAdd(BShr(t.q, 1).q, <<1>>)
                           ELSE BShr(t.q, 1).q
         IN  (IF a.s < 0 THEN "-" ELSE "")
                 \o (IF n = <<>> THEN "0"
                     ELSE IF BCmp(n, Pow10(21)) < 0 THEN Text(Digits(n))
                     ELSE ExponentForm(a, n, DigitCount(n)))

\* the double a decimal literal n/d of the payload is read as (d a power of
\* ten; n and d are exact doubles, so the quotient is rounded once)
Dec(n, d) == Div(Num(n), Num(d))

-----------------------------------------------------------------------------
(* renderChart (lines 252-315) *)

\* a field of a point as the payload carries it: a number, or anything that
\* Number() turns into NaN (a missing field, a non-numeric string)
JNum(d) == [kind |-> "num", val |-> d]

NotNumeric == [kind |-> "other", val |-> NaN]

\* `Number(p.t) || 0`: NaN and 0 give 0
NumberOr0(r) == IF r.kind # "num" \/ r.val.k = "nan" THEN Zero ELSE r.val

\* timestamps: 0, 5e-10, 5 and 10 seconds, and 1e999, which JSON.parse reads
\* as Infinity
Times == {JNum(Num(0)), JNum(Dec(1, 2000000000)), JNum(Num(5)), JNum(Num(10)),
          JNum(Infinity(1))}

\* values: 0, 0.7 and 1
Values == {JNum(Num(0)), JNum(Dec(7, 10)), JNum(Num(1))}

\* an element of the series: an object with t and value, or null
Point(t, v) == [obj |-> TRUE, t |-> t, value |-> v]

NullPoint == [obj |-> FALSE, t |-> NotNumeric, value |-> NotNumeric]

\* the elements: points with numeric fields, a point whose fields are not
\* numeric, and null
Points ==
    {Point(a, b) : a \in Times, b \in Values}
        \cup {Point(NotNumeric, NotNumeric), NullPoint}

\* the series renderChart is given
SeriesInputs == UNION {[1..k -> Points] : k \in 0..MaxPoints}

\* the canvases renderChart may find
Canvases == {NoCanvas,
             [present |-> TRUE, w |-> 300, h |-> 150],
             [present |-> TRUE, w |-> 640, h |-> 240]}

\* one operation on the 2d context: a method call with its arguments, or the
\* assignment of a property
Call(op, text, args) == [op |-> op, text |-> text, args |-> args]

SetProp(prop, text) == Call("set " \o prop, text, <<>>)

SetWidth(k) == Call("set lineWidth", "", <<Num(k)>>)

PathOp(op) == Call(op, "", <<>>)

To(op, px, py) == Call(op, "", <<px, py>>)

fillText(text, px, py) == Call("fillText", text, <<px, py>>)

padL == 40

padR == 10

padT == 10

padB == 30

vMin == 0

vMax == 1

\* the literal 1e-9 of the scale helpers
Eps == Dec(1, 1000000000)

\* mutant of ScaleDen: the span itself is the denominator
ScaleDenNoFloor(span) == span

\* `Math.max(1e-9, span)`
ScaleDen(span) == MathMax(Eps, span)

\* `x = t => padL + ((t - tMin) / Math.max(1e-9, (tMax - tMin))) * plotW`
x(t, tMin, tMax, plotW) ==
    Add(Num(padL), Mul(Div(Sub(t, tMin), ScaleDen(Sub(tMax, tMin))), plotW))

\* mutant of y: the vertical axis grows downwards
yNotFlipped(v, plotH) ==
    Add(Num(padT),
        Mul(Div(Sub(v, Num(vMin)), ScaleDen(Sub(Num(vMax), Num(vMin)))), plotH))

\* `y = v => padT + (1 - (v - vMin) / Math.max(1e-9, (vMax - vMin))) * plotH`
y(v, plotH) ==
    Add(Num(padT),
        Mul(Sub(Num(1), Div(Sub(v, Num(vMin)),
                            ScaleDen(Sub(Num(vMax), Num(vMin))))),
            plotH))

\* `ctx.clearRect(0, 0, w, h)`
Clear(w, h) == <<Call("clearRect", "", <<Num(0), Num(0), Num(w), Num(h)>>)>>

\* the two axes
Axes(w, h) ==
    << SetProp("strokeStyle", "#888"), SetWidth(1),
       PathOp("beginPath"),
       To("moveTo", Num(padL), Num(h - padB)),
       To("lineTo", Num(w - padR), Num(h - padB)),
       PathOp("stroke"),
       PathOp("beginPath"),
       To("moveTo", Num(padL), Num(padT)),
       To("lineTo", Num(padL), Num(h - padB)),
       PathOp("stroke") >>

\* the four labels
Labels(tMin, tMax, w, h) ==
    << SetProp("fillStyle", "#555"), SetProp("font", "12px sans-serif"),
       SetProp("textAlign", "center"),
       fillText(toFixed0(tMin) \o "s", Num(padL), Num(h - 10)),
       fillText(toFixed0(tMax) \o "s", Num(w - padR), Num(h - 10)),
       SetProp("textAlign", "right"),
       fillText("1.0", Num(padL - 6), Num(padT + 4)),
       fillText("0.0", Num(padL - 6), Num(h - padB)) >>

\* the polyline through the points, in the order of the array
Line(times, values, tMin, tMax, plotW, plotH) ==
    << SetProp("strokeStyle", "#2a7"), SetWidth(2), PathOp("beginPath") >>
    \o [i \in 1..Len(times) |->
            To(IF i = 1 THEN "moveTo" ELSE "lineTo",
               x(times[i], tMin, tMax, plotW), y(values[i], plotH))]
    \o << PathOp("stroke") >>

\* everything below the empty test (lines 264-314)
Plot(series, w, h) ==
    LET times  == [i \in 1..Len(series) |-> NumberOr0(series[i].t)]
        values == [i \in 1..Len(series) |-> NumberOr0(series[i].value)]
        tMin   == MinOf(times)
        tMax   == MaxOf(times)
        plotW  == Num(w - padL - padR)
        plotH  == Num(h - padT - padB)
    IN  Axes(w, h) \o Labels(tMin, tMax, w, h)
            \o Line(times, values, tMin, tMax, plotW, plotH)

\* `p.t` of a null element raises a TypeError inside series.map (line 265)
ChartThrows(series, canvas) ==
    /\ canvas.present
    /\ \E i \in 1..Len(series) : ~series[i].obj

\* mutant of ChartCalls: the empty test comes before the clear
ChartCallsTestFirst(series, canvas) ==
    IF ~canvas.present \/ series = <<>> THEN <<>>
    ELSE IF ChartThrows(series, canvas) THEN Clear(canvas.w, canvas.h)
    ELSE Clear(canvas.w, canvas.h) \o Plot(series, canvas.w, canvas.h)

\* the context operations of one call of renderChart, in order
ChartCalls(series, canvas) ==
    IF ~canvas.present THEN <<>>
    ELSE IF series = <<>> \/ ChartThrows(series, canvas)
         THEN Clear(canvas.w, canvas.h)
    ELSE Clear(canvas.w, canvas.h) \o Plot(series, canvas.w, canvas.h)

\* the page after renderChart(series)
Rendered(canvas, series) ==
    [canvas |-> canvas, series |-> series,
     calls |-> ChartCalls(series, canvas), done |-> TRUE,
     threw |-> ChartThrows(series, canvas)]

\* renderChart is called with the series held in `chart`
renderChart ==
    /\ ~chart.done
    /\ chart' = Rendered(chart.canvas, chart.series)
    /\ UNCHANGED <<path, token, boot_id, serverBoot, valid, inflight, nav, run,
                   ev, fixed, hops>>

-----------------------------------------------------------------------------
(* File operations and identity helpers *)

\* requests of checkAuth itself: the probe, the validation, its getCurrentUser
GuardOps == {"checkAuth.boot", "checkAuth.validate", "checkAuth.me"}

Pending == BagCardinality([r \in {q \in BagToSet(inflight) : q.op \notin GuardOps}
                              |-> inflight[r]])

\* a user-started operation is admitted while the bound on requests allows
Admit == Pending < MaxPending

\* loadUserFiles (lines 319-337) up to its await: the token is read and the
\* request is sent whether or not a token is stored
loadUserFiles(stored) == <<ListReq(stored)>>

\* loadUserFiles called on its own (from the page)
loadUserFiles_call ==
    /\ Admit
    /\ inflight' = AddAll(inflight, loadUserFiles(token))
    /\ ev' = Event("loadUserFiles", "sent", token, loadUserFiles(token), <<>>, <<>>)
    /\ chart' = NoChart
    /\ UNCHANGED <<path, token, boot_id, serverBoot, valid, nav, run, fixed,
                   hops>>

\* what an answer of /media/files parses to: an object whose `files` is an
\* array with no null among its elements ("files"), one whose array holds a
\* null ("nullrow"), or anything else ("nofiles")
ListBodies == {"files", "nullrow", "nofiles"}

\* the answers of /media/files: `files` is read from the body of a 2xx
\* answer only, an error answer gives 'Error loading files' whatever its body
ListAnswers ==
    {[out |-> "ok", body |-> body] : body \in ListBodies}
        \cup {[out |-> out, body |-> "nofiles"] : out \in {"err", "neterr"}}

\* loadUserFiles after its fetch: the rows, or the error text.  Nothing is
\* caught: a rejected fetch or an unparsable body, `data.files.map` of a 2xx
\* body without the array, `f.filename` of a null element of the array, and
\* `filesEl.innerHTML` of a page without the element 'user-files' reject the
\* promise of loadUserFiles and leave the list as it is
ListView(out, body, filesEl) ==
    IF out = "neterr" \/ ~filesEl THEN <<"throw">>
    ELSE IF out = "err" THEN <<"filesError">>
    ELSE IF body = "files" THEN <<"files">> ELSE <<"throw">>

loadUserFiles_resp(out, body, filesEl) ==
    \E r \in BagToSet(inflight) :
        /\ r.op = "loadUserFiles"
        /\ CanAnswer(r, out)
        /\ out # "ok" => body = "nofiles"
        /\ inflight' = Exchange(r, <<>>)
        /\ ev' = Event("loadUserFiles.resp", out, r.bearer, <<>>, <<>>,
                       ListView(out, body, filesEl))
        /\ chart' = NoChart
        /\ UNCHANGED <<path, token, boot_id, serverBoot, valid, nav, run,
                       fixed, hops>>

\* upload (lines 194-219) up to its await; `getElementById('fileInput').files`
\* throws on a page without the file input, before the token is read
upload_call(fileInput) ==
    /\ Admit
    /\ LET sent == IF token = Null \/ ~fileInput THEN <<>>
                   ELSE <<Req("upload", "/media/upload", 0, token)>>
       IN  /\ inflight' = AddAll(inflight, sent)
           /\ ev' = Event("upload",
                          IF ~fileInput THEN "threw"
                          ELSE IF token = Null THEN "notoken" ELSE "sent",
                          token, sent, <<>>,
                          IF ~fileInput THEN <<"throw">>
                          ELSE IF token = Null THEN <<"alert">> ELSE <<>>)
    /\ chart' = NoChart
    /\ UNCHANGED <<path, token, boot_id, serverBoot, valid, nav, run, fixed,
                   hops>>

\* what an answer of /media/upload parses to: an object whose `results` is
\* an array with no null among its elements ("results"), one whose array
\* holds a null ("nullresult"), any other value but null ("noresults"), or
\* null
UploadBodies == {"results", "nullresult", "noresults", "null"}

\* the answers of /media/upload: a 2xx or an error answer with each of the
\* bodies, and the fetch that is rejected, which has none
UploadAnswers ==
    {[out |-> out, body |-> body] : out \in {"ok", "err"}, body \in UploadBodies}
        \cup {[out |-> "neterr", body |-> "null"]}

\* upload after its fetch: the list is refreshed after a 2xx answer whose
\* names were written to 'results'.  Nothing is caught: a rejected fetch or
\* an unparsable body, `data.results.map` of a 2xx body without the array,
\* `r.filename` of a null element of the array, `data.detail` of a null body
\* and `resultsEl.innerHTML` of a page without the element throw, on a 2xx
\* answer before loadUserFiles() is reached
UploadEffect(out, body, resultsEl, stored) ==
    IF out = "ok" /\ body = "results" /\ resultsEl
    THEN Effect(stored, <<>>, loadUserFiles(stored), <<"uploaded">>, "")
    ELSE IF out = "err" /\ body # "null" /\ resultsEl
    THEN Effect(stored, <<>>, <<>>, <<"uploadError">>, "")
    ELSE Effect(stored, <<>>, <<>>, <<"throw">>, "")

upload_resp(out, body, resultsEl) ==
    \E r \in BagToSet(inflight) :
        /\ r.op = "upload"
        /\ CanAnswer(r, out)
        /\ out = "neterr" => body = "null"
        /\ LET ue == UploadEffect(out, body, resultsEl, token)
           IN  /\ inflight' = Exchange(r, ue.sent)
               /\ ev' = Event("upload.resp", out, r.bearer, ue.sent, <<>>, ue.dom)
        /\ chart' = NoChart
        /\ UNCHANGED <<path, token, boot_id, serverBoot, valid, nav, run,
                       fixed, hops>>

\* deleteFile (lines 469-480) up to its await: `if (!token) return;`
deleteFile_call(id) ==
    /\ Admit
    /\ LET sent == IF token = Null THEN <<>>
                   ELSE <<Req("deleteFile", "/media/files/{id}", id, token)>>
       IN  /\ inflight' = AddAll(inflight, sent)
           /\ ev' = Event("deleteFile", IF token = Null THEN "notoken" ELSE "sent",
                          token, sent, <<>>, <<>>)
    /\ chart' = NoChart
    /\ UNCHANGED <<path, token, boot_id, serverBoot, valid, nav, run, fixed,
                   hops>>

\* mutant of DeleteEffect: the list is refreshed after a 2xx answer only
DeleteEffectOnOk(out, stored) ==
    IF out = "ok" THEN loadUserFiles(stored) ELSE <<>>

\* deleteFile after its fetch: res is not looked at; a rejection goes to the
\* empty catch
DeleteEffect(out, stored) ==
    IF out \in {"ok", "err"} THEN loadUserFiles(stored) ELSE <<>>

deleteFile_resp(out) ==
    \E r \in BagToSet(inflight) :
        /\ r.op = "deleteFile"
        /\ CanAnswer(r, out)
        /\ inflight' = Exchange(r, DeleteEffect(out, token))
        /\ ev' = Event("deleteFile.resp", out, r.bearer, DeleteEffect(out, token),
                       <<>>, <<>>)
        /\ chart' = NoChart
        /\ UNCHANGED <<path, token, boot_id, serverBoot, valid, nav, run,
                       fixed, hops>>

\* JSON bodies of an answer of the analyze endpoint: an object with an array
\* in `series`, an object without one and without `detail`, an object with a
\* `detail` text, and null
AnalyzeBodies == {"series", "noseries", "detail", "null"}

\* the `detail` of an error answer
DetailText == "File not found"

\* the series of an answer: empty, the two points (0, 0) and (10, 1), or
\* an array holding null
AnalyzeSeries ==
    {<<>>,
     <<Point(JNum(Num(0)), JNum(Num(0))), Point(JNum(Num(10)), JNum(Num(1)))>>,
     <<NullPoint>>}

\* what getElementById('engagement-chart') finds when an answer arrives
PageCanvases == {NoCanvas, [present |-> TRUE, w |-> 300, h |-> 150]}

\* the answers of the analyze endpoint: a 2xx answer with an array in
\* `series` is drawn, with each series on each canvas; a 2xx or an error
\* answer with each of the bodies is not, and has no series and meets no
\* canvas; neither has the fetch that is rejected
AnalyzeAnswers ==
    {[out |-> "ok", body |-> "series", series |-> series, c |-> c] :
        series \in AnalyzeSeries, c \in PageCanvases}
        \cup {[out |-> out, body |-> body, series |-> <<>>, c |-> NoCanvas] :
                 out \in {"ok", "err"}, body \in AnalyzeBodies}
        \cup {[out |-> "neterr", body |-> "null", series |-> <<>>,
                c |-> NoCanvas]}

\* renderChart(series) for each series of an answer on each canvas of a page
RenderedAnswer ==
    [c \in PageCanvases, s \in AnalyzeSeries |-> Rendered(c, s)]

\* `if (errEl) errEl.textContent = text`
ErrorText(errEl, text) == IF errEl THEN <<"chartError:" \o text>> ELSE <<>>

\* analyzeFile (lines 222-249) up to its await; errEl is whether the page has
\* the element 'chart-error'
analyzeFile_call(id, errEl) ==
    /\ Admit
    /\ LET sent == IF token = Null THEN <<>>
                   ELSE <<[Req("analyzeFile", "/media/files/{id}/analyze", id,
                               token) EXCEPT !.errEl = errEl]>>
       IN  /\ inflight' = AddAll(inflight, sent)
           /\ ev' = [Event("analyzeFile",
                           IF token = Null THEN "notoken" ELSE "sent",
                           token, sent, <<>>,
                           ErrorText(errEl, "")
                               \o (IF token = Null
                                   THEN ErrorText(errEl, "Not authenticated")
                                   ELSE <<>>))
                        EXCEPT !.errEl = errEl]
    /\ chart' = NoChart
    /\ UNCHANGED <<path, token, boot_id, serverBoot, valid, nav, run, fixed,
                   hops>>

\* mutant of AnalyzeView: the body of a 2xx answer is not checked
AnalyzeViewUnchecked(out, body, threw, errEl) ==
    IF out = "neterr" THEN ErrorText(errEl, "Connection error")
    ELSE IF out = "err"
         THEN IF body = "null" THEN ErrorText(errEl, "Connection error")
              ELSE IF body = "detail" THEN ErrorText(errEl, DetailText)
              ELSE ErrorText(errEl, "Analyze failed")
    ELSE <<"renderChart">>
             \o (IF threw THEN ErrorText(errEl, "Connection error") ELSE <<>>)

\* analyzeFile after its fetch: everything is inside try/catch, so nothing
\* is thrown further.  A rejected fetch or an unparsable body, `data.detail`
\* of a null body, and an exception of renderChart all end in the catch.
\* Every message is written only `if (errEl)`.
AnalyzeView(out, body, threw, errEl) ==
    IF out = "neterr" THEN ErrorText(errEl, "Connection error")
    ELSE IF out = "err"
         THEN IF body = "null" THEN ErrorText(errEl, "Connection error")
              ELSE IF body = "detail" THEN ErrorText(errEl, DetailText)
              ELSE ErrorText(errEl, "Analyze failed")
    ELSE IF body # "series" THEN ErrorText(errEl, "Unexpected analyze response")
    ELSE <<"renderChart">>
             \o (IF threw THEN ErrorText(errEl, "Connection error") ELSE <<>>)

\* the answer arrives: on a 2xx answer with an array series renderChart runs
\* inside this step, on the canvas c it finds
analyzeFile_resp(out, body, series, c) ==
    \E r \in BagToSet(inflight) :
        /\ r.op = "analyzeFile"
        /\ CanAnswer(r, out)
        /\ out = "neterr" => body = "null"
        /\ (out # "ok" \/ body # "series") => series = <<>> /\ c = NoCanvas
        /\ LET draws == out = "ok" /\ body = "series"
               after == IF draws THEN RenderedAnswer[c, series] ELSE NoChart
           IN  /\ chart' = after
               /\ ev' = [Event("analyzeFile.resp", out, r.bearer, <<>>, <<>>,
                               AnalyzeView(out, body, draws /\ after.threw,
                                           r.errEl))
                            EXCEPT !.body = IF out = "neterr" THEN "none" ELSE body,
                                   !.errEl = r.errEl]
        /\ inflight' = Exchange(r, <<>>)
        /\ UNCHANGED <<path, token, boot_id, serverBoot, valid, nav, run, fixed, hops>>

\* showUsernameInNav (lines 453-460) up to the await inside getCurrentUser
showUsernameInNav_call ==
    /\ Admit
    /\ inflight' = AddAll(inflight, getCurrentUser("showUsernameInNav", token))
    /\ ev' = Event("showUsernameInNav", IF token = Null THEN "notoken" ELSE "sent",
                   token, getCurrentUser("showUsernameInNav", token), <<>>, <<>>)
    /\ chart' = NoChart
    /\ UNCHANGED <<path, token, boot_id, serverBoot, valid, nav, run, fixed,
                   hops>>

\* /auth/me is answered to the getCurrentUser awaited by showUsernameInNav
showUsernameInNav_resp(out, body, nameEl) ==
    \E r \in BagToSet(inflight) :
        /\ r.op = "showUsernameInNav"
        /\ CanAnswer(r, out)
        /\ inflight' = Exchange(r, <<>>)
        /\ out # "ok" => body = "nousername"
        /\ ev' = Event("showUsernameInNav.resp", out, r.bearer, <<>>, <<>>,
                       UsernameWrite(out, body, nameEl))
        /\ chart' = NoChart
        /\ UNCHANGED <<path, token, boot_id, serverBoot, valid, nav, run,
                       fixed, hops>>

-----------------------------------------------------------------------------
(* logout (lines 463-466) *)

\* mutant of LogoutEffect: removeItem is not wrapped in try/catch, as in the
\* first copy of logout (lines 163-166)
LogoutEffectNoCatch(tok, throws) ==
    IF throws THEN Effect(tok, <<>>, <<>>, <<"throw">>, "")
    ELSE Effect(Null, <<"/auth">>, <<>>, <<>>, "")

\* `try { localStorage.removeItem('token'); } catch (e) {}` and the replace
\* that follows in either case
LogoutEffect(tok, throws) ==
    Effect(IF throws THEN tok ELSE Null, <<"/auth">>, <<>>, <<>>, "")

\* logout; `throws` says whether removeItem raised
logout(throws) ==
    /\ LET le == LogoutEffect(token, throws)
       IN  /\ token' = le.token
           /\ nav' = NavAfter(le.redir)
           /\ ev' = Event("logout", IF throws THEN "threw" ELSE "none", Null,
                          <<>>, le.redir, le.dom)
    /\ chart' = NoChart
    /\ UNCHANGED <<path, boot_id, serverBoot, valid, inflight, run, fixed,
                   hops>>

-----------------------------------------------------------------------------
(* Environment: the browser, other pages sharing the storage, the backend *)

\* a page is loaded: the user opens a path, or the browser follows the pending
\* location.replace; the old page's suspended functions are discarded and the
\* new page's load handler calls checkAuth, which sends the boot probe
PageLoad(p) ==
    /\ IF nav = Null THEN p \in Paths ELSE p = nav
    /\ path' = p
    /\ inflight' = SetToBag({BootReq})
    /\ nav' = Null
    /\ run' = NewRun(boot_id)
    /\ ev' = Idle
    /\ chart' = NoChart
    /\ UNCHANGED <<token, boot_id, serverBoot, valid, fixed, hops>>

\* a login (outside this script) stores a token the backend accepts
Login(t) ==
    /\ token' = t
    /\ valid' = valid \cup {t}
    /\ ev' = Idle
    /\ chart' = NoChart
    /\ UNCHANGED <<path, boot_id, serverBoot, inflight, nav, run, fixed, hops>>

\* the backend restarts: a new boot id; sessions are lost or survive
Restart(b, keep) ==
    /\ b # serverBoot
    /\ serverBoot' = b
    /\ valid' = IF keep THEN valid ELSE {}
    /\ ev' = Idle
    /\ chart' = NoChart
    /\ UNCHANGED <<path, token, boot_id, inflight, nav, run, fixed, hops>>

\* the browser follows the location.replace of checkAuth: the target is
\* loaded and its load handler calls checkAuth
FollowRedirect ==
    /\ nav # Null
    /\ hops < MaxHops
    /\ path' = nav
    /\ inflight' = SetToBag({BootReq})
    /\ nav' = Null
    /\ run' = NewRun(boot_id)
    /\ ev' = Idle
    /\ chart' = NoChart
    /\ hops' = hops + 1
    /\ UNCHANGED <<token, boot_id, serverBoot, valid, fixed>>

\* the backend answers as it pleases
Free == [boot |-> "any", validate |-> "any"]

-----------------------------------------------------------------------------
Init ==
    /\ path \in Paths
    /\ token = Null
    /\ boot_id = Null
    /\ serverBoot = "b1"
    /\ valid = {}
    /\ inflight = SetToBag({BootReq})
    /\ nav = Null
    /\ run = NewRun(Null)
    /\ ev = Idle
    /\ chart = NoChart
    /\ fixed = Free
    /\ hops = 0

Next ==
    \/ \E out \in Outcomes : checkAuth_probe(out)
    \/ \E out \in Outcomes : checkAuth_validate(out)
    \/ \E a \in MeAnswers, nameEl \in BOOLEAN :
           checkAuth_me(a.out, a.body, nameEl)
    \/ loadUserFiles_call
    \/ \E a \in ListAnswers, filesEl \in BOOLEAN :
           loadUserFiles_resp(a.out, a.body, filesEl)
    \/ \E fileInput \in BOOLEAN : upload_call(fileInput)
    \/ \E a \in UploadAnswers, resultsEl \in BOOLEAN :
           upload_resp(a.out, a.body, resultsEl)
    \/ \E id \in FileIds : deleteFile_call(id)
    \/ \E out \in Outcomes : deleteFile_resp(out)
    \/ \E id \in FileIds, errEl \in BOOLEAN : analyzeFile_call(id, errEl)
    \/ \E a \in AnalyzeAnswers :
           analyzeFile_resp(a.out, a.body, a.series, a.c)
    \/ showUsernameInNav_call
    \/ \E a \in MeAnswers, nameEl \in BOOLEAN :
           showUsernameInNav_resp(a.out, a.body, nameEl)
    \/ \E throws \in BOOLEAN : logout(throws)
    \/ \E p \in Paths : PageLoad(p)
    \/ \E t \in Tokens : Login(t)
    \/ \E b \in BootIds, keep \in BOOLEAN : Restart(b, keep)

Spec == Init /\ [][Next]_vars

-----------------------------------------------------------------------------
(* Chains of page loads against a backend whose answers stay fixed *)

\* the paths on which one of the page flags of checkAuth is true
RecognizedPaths ==
    {p \in Paths : onAuthPage(NormalizePath(p)) \/ onPrivatePage(NormalizePath(p))}

\* any recognised page, any stored token and boot_id, any backend state; the
\* probe and the validation are each answered the same way on every load
InitFixed ==
    /\ path \in RecognizedPaths
    /\ token \in Tokens \cup {Null}
    /\ boot_id \in BootIds \cup {Null}
    /\ serverBoot \in BootIds
    /\ valid \in SUBSET Tokens
    /\ fixed \in [boot : Outcomes, validate : Outcomes]
    /\ \A t \in Tokens : CanAnswer(ValidateReq(t), fixed.validate)
    /\ inflight = SetToBag({BootReq})
    /\ nav = Null
    /\ run = NewRun(boot_id)
    /\ ev = Idle
    /\ chart = NoChart
    /\ hops = 0

NextFixed ==
    \/ checkAuth_probe(fixed.boot)
    \/ checkAuth_validate(fixed.validate)
    \/ \E a \in MeAnswers, nameEl \in BOOLEAN :
           checkAuth_me(a.out, a.body, nameEl)
    \/ FollowRedirect

SpecFixed == InitFixed /\ [][NextFixed]_vars

-----------------------------------------------------------------------------
(* renderChart applied to each series and canvas *)

InitChart ==
    /\ path = "/upload"
    /\ token = Null
    /\ boot_id = Null
    /\ serverBoot = "b1"
    /\ valid = {}
    /\ inflight = SetToBag({BootReq})
    /\ nav = Null
    /\ run = NewRun(Null)
    /\ ev = Idle
    /\ chart \in {[Fresh(c) EXCEPT !.series = s] :
                     c \in Canvases, s \in SeriesInputs}
    /\ fixed = Free
    /\ hops = 0

NextChart == renderChart

SpecChart == InitChart /\ [][NextChart]_vars

\* analyzeFile by itself, on pages with and without the element
\* 'chart-error', while tokens come and go and pages are replaced: the steps
\* of Next that bear on what analyzeFile does
NextAnalyze ==
    \/ \E id \in FileIds, errEl \in BOOLEAN : analyzeFile_call(id, errEl)
    \/ \E a \in AnalyzeAnswers :
           analyzeFile_resp(a.out, a.body, a.series, a.c)
    \/ \E throws \in BOOLEAN : logout(throws)
    \/ \E p \in Paths : PageLoad(p)
    \/ \E t \in Tokens : Login(t)
    \/ \E b \in BootIds, keep \in BOOLEAN : Restart(b, keep)

SpecAnalyze == Init /\ [][NextAnalyze]_vars

-----------------------------------------------------------------------------
(* Properties.  The page sets below are written out from the claims, not     *)
(* derived from the path tests of the script.                                *)

PublicPaths == {"/", "/auth", "/auth/"}

PrivatePaths == {"/upload", "/upload/", "/profile", "/profile/",
                 "/algorithm", "/algorithm/"}

\* steps of checkAuth
GuardSteps == {"checkAuth.boot", "checkAuth.validate", "checkAuth.me"}

\* steps that resume an operation from a fetch that carried the bearer token
BearerSteps == {"checkAuth.validate", "checkAuth.me", "loadUserFiles.resp",
                "upload.resp", "deleteFile.resp", "analyzeFile.resp",
                "showUsernameInNav.resp"}

\* requests of checkAuth to protected endpoints that are still unanswered
GuardProtectedPending ==
    {r \in BagToSet(inflight) : r.op \in {"checkAuth.validate", "checkAuth.me"}}

\* C1: whenever an operation that sent the stored token as bearer credential
\* is answered non-2xx because the backend does not accept that token, the
\* token is no longer in storage when the operation has handled the answer.
C1_RejectedTokenIsCleared ==
    (ev.op \in BearerSteps /\ ev.out = "err"
        /\ ev.bearer \in Tokens /\ ev.bearer \notin valid)
        => token # ev.bearer

\* C2: when checkAuth's validation request fails (non-2xx or network error),
\* every private page is redirected to /auth and the public page is not
\* redirected and has its login forms revealed.
C2_FailedValidationRedirectsPrivate ==
    (ev.op = "checkAuth.validate" /\ ev.out \in {"err", "neterr"})
        => /\ path \in PrivatePaths => ev.redir = <<"/auth">>
           /\ path \in PublicPaths => (ev.redir = <<>> /\ ev.dom = <<"showForms">>)

\* C3: when checkAuth reaches its token check with no token stored (also when
\* the boot step has just removed it) on a private page, with or without a
\* trailing slash, it redirects to /auth and the run ends there: it has sent
\* and will send no request to /media/files or /auth/me.
C3_NoTokenOnPrivatePageRedirects ==
    /\ (ev.op = "checkAuth.boot" /\ token = Null /\ path \in PrivatePaths)
           => /\ ev.redir = <<"/auth">>
              /\ nav = "/auth"
              /\ ev.sent = <<>>
              /\ run.pc = "done"
    /\ run.pc = "done" => GuardProtectedPending = {}

\* C3 witness: the boot step removed a stored token on /profile/ and the guard
\* redirected.
C3_Witness ==
    /\ ev.op = "checkAuth.boot" /\ path = "/profile/"
    /\ ev.stored = "t1" /\ token = Null
    /\ ev.redir = <<"/auth">>

\* C4 as stated: if the backend's boot id at this load differs from the boot
\* id stored by an earlier load, the boot step removes the token and no
\* validation request is sent with it.
C4_BootChangeAlwaysClears ==
    (ev.op = "checkAuth.boot" /\ ev.prev # Null /\ ev.prev # serverBoot)
        => (token = Null /\ ev.sent = <<>>)

\* C4 (amended): if the boot probe of this load is answered 2xx with a boot id
\* that differs from the one stored by an earlier load, the boot step removes
\* the token, whether or not the backend would still accept it, and no
\* validation request is sent with it.
C4_ProbedBootChangeClears ==
    (ev.op = "checkAuth.boot" /\ ev.out = "ok"
        /\ ev.prev # Null /\ ev.prev # serverBoot)
        => /\ token = Null
           /\ ev.sent = <<>>
           /\ GuardProtectedPending = {}

\* C4 witness: a token the backend still accepts is removed because the boot
\* id changed.
C4_Witness ==
    /\ ev.op = "checkAuth.boot" /\ ev.out = "ok"
    /\ ev.prev # Null /\ ev.prev # serverBoot
    /\ ev.stored = "t1" /\ "t1" \in valid
    /\ token = Null

\* C5: on a path that, with one trailing slash stripped, is none of /, /auth,
\* /upload, /profile, /algorithm, no step of checkAuth calls
\* window.location.replace.
C5_UnrecognizedPathNeverRedirects ==
    (ev.op \in GuardSteps /\ path \notin PublicPaths \cup PrivatePaths)
        => ev.redir = <<>>

\* C5 witness: on /upload// the validation of a stored token failed and
\* checkAuth did not redirect.
C5_Witness ==
    /\ ev.op = "checkAuth.validate" /\ ev.out = "neterr"
    /\ path = "/upload//"
    /\ ev.redir = <<>>

\* C6: when the validation request is answered 2xx and a token is in storage:
\* on the public page checkAuth redirects to /upload and starts no refresh; on
\* a private page it does not redirect, leaves the token, and sends exactly
\* one GET /media/files of loadUserFiles and exactly one GET /auth/me of
\* getCurrentUser.
C6_ValidTokenOutcome ==
    (ev.op = "checkAuth.validate" /\ ev.out = "ok" /\ ev.stored # Null)
        => /\ path \in PublicPaths =>
                (ev.redir = <<"/upload">> /\ ev.sent = <<>> /\ token = ev.stored)
           /\ path \in PrivatePaths =>
                /\ ev.redir = <<>>
                /\ token = ev.stored
                /\ ev.sent = <<ListReq(ev.stored), MeReq("checkAuth.me", ev.stored)>>

\* C6 witness: a valid token on /algorithm started both refreshes.
C6_Witness ==
    /\ ev.op = "checkAuth.validate" /\ ev.out = "ok" /\ ev.stored = "t1"
    /\ path = "/algorithm"
    /\ Len(ev.sent) = 2

\* C7: when the validation request of checkAuth is answered non-2xx, the run
\* ends in that step with the token absent from storage, on every page, and
\* boot_id is as the boot step left it.
C7_RejectedValidationClearsToken ==
    (ev.op = "checkAuth.validate" /\ ev.out = "err")
        => /\ token = Null
           /\ run.pc = "done"
           /\ boot_id = ev.prev
           /\ boot_id = run.boot

\* C7 witness: a rejected token on an unrecognised page was removed.
C7_Witness ==
    /\ ev.op = "checkAuth.validate" /\ ev.out = "err"
    /\ path = "/about"
    /\ ev.stored = "t1" /\ token = Null

\* C8 as stated: every invocation of deleteFile triggers exactly one list
\* refresh after its DELETE request, whatever the outcome.
C8_DeleteAlwaysRefreshesOnce ==
    /\ ev.op = "deleteFile" => ev.out = "sent"
    /\ ev.op = "deleteFile.resp" => Len(ev.sent) = 1

\* C8 (amended): an invocation of deleteFile that finds a token stored sends
\* one DELETE request and, when that request is answered (2xx or non-2xx),
\* starts exactly one list refresh (one GET /media/files); with no token
\* stored it sends nothing and starts no refresh, and when the DELETE request
\* fails with a network error it starts none.
C8_AnsweredDeleteRefreshesOnce ==
    /\ (ev.op = "deleteFile" /\ ev.stored = Null) => ev.sent = <<>>
    /\ (ev.op = "deleteFile" /\ ev.stored # Null) =>
            (Len(ev.sent) = 1 /\ ev.sent[1].op = "deleteFile"
                /\ ev.sent[1].bearer = ev.stored)
    /\ (ev.op = "deleteFile.resp" /\ ev.out \in {"ok", "err"}) =>
            ev.sent = <<ListReq(token)>>
    /\ (ev.op = "deleteFile.resp" /\ ev.out = "neterr") => ev.sent = <<>>

\* C8 witness: a DELETE answered non-2xx was followed by one list refresh.
C8_Witness ==
    /\ ev.op = "deleteFile.resp" /\ ev.out = "err"
    /\ Len(ev.sent) = 1 /\ ev.sent[1].ep = "/media/files"

\* C9 as stated: after the boot step of every run of checkAuth the stored
\* boot_id is the backend's current boot id.
C9_BootIdAlwaysOverwritten ==
    ev.op = "checkAuth.boot" => boot_id = serverBoot

\* C9 (amended): after a run of checkAuth whose /meta/boot probe was answered
\* 2xx the stored boot_id is the boot id of that answer, whether or not it
\* changed and whether or not a token is stored; when the probe fails the
\* stored boot_id is left as it was; the rest of the run does not write it.
C9_ProbedBootIdOverwritten ==
    /\ (ev.op = "checkAuth.boot" /\ ev.out = "ok") => boot_id = serverBoot
    /\ (ev.op = "checkAuth.boot" /\ ev.out # "ok") => boot_id = ev.prev
    /\ run.pc # "boot" => boot_id = run.boot

\* C9 witness: the first probe of a browser with no token stored boot_id.
C9_Witness ==
    /\ ev.op = "checkAuth.boot" /\ ev.out = "ok"
    /\ ev.prev = Null /\ ev.stored = Null
    /\ boot_id = serverBoot

\* the boot id an answer that detects no restart would carry
UnchangedBoot(prev) == IF prev = Null THEN serverBoot ELSE prev

\* C10: when the /meta/boot probe fails (non-2xx or network error) the boot
\* step leaves token and boot_id as they were, and the token check that
\* follows does what it does for the same stored token after a probe that
\* reports no restart.
C10_FailedProbeIsIgnored ==
    (ev.op = "checkAuth.boot" /\ ev.out \in {"err", "neterr"})
        => LET pe == ProbeEffect("ok", UnchangedBoot(ev.prev), ev.stored, ev.prev)
               te == TokenCheck(NormalizePath(path), pe.token)
           IN  /\ token = ev.stored
               /\ boot_id = ev.prev
               /\ token = pe.token
               /\ ev.sent = te.sent /\ ev.redir = te.redir /\ ev.dom = te.dom
               /\ run.pc = te.pc

\* C10 witness: the probe failed after a restart and the stored token went on
\* to validation.
C10_Witness ==
    /\ ev.op = "checkAuth.boot" /\ ev.out = "neterr"
    /\ ev.prev # Null /\ ev.prev # serverBoot
    /\ ev.stored = "t1" /\ token = "t1"
    /\ ev.sent = <<ValidateReq("t1")>>

-----------------------------------------------------------------------------
(* Properties of the file operations under interleaving *)

\* the requests to bearer-protected endpoints among those a step sent
ProtectedSent == {i \in 1..Len(ev.sent) : ev.sent[i].ep # "/meta/boot"}

\* C11: every request to a bearer-protected endpoint sent by a step of
\* checkAuth, upload, deleteFile, analyzeFile or getCurrentUser, or by the
\* list refresh such a step starts, carries a token that is in storage when
\* the request is sent.
C11_ProtectedRequestCarriesStoredToken ==
    ev.op # "loadUserFiles" =>
        \A i \in ProtectedSent : ev.sent[i].bearer \in Tokens /\ ev.sent[i].bearer = token

\* the one message a failed analyzeFile leaves in #chart-error
AnalyzeErrors == {"chartError:Not authenticated", "chartError:Analyze failed",
                  "chartError:" \o DetailText,
                  "chartError:Unexpected analyze response",
                  "chartError:Connection error"}

\* C12 as stated: analyzeFile calls renderChart only when it read a token,
\* the analyze answer is 2xx and its body has an array in `series`; in every
\* other case it ends with an error message in #chart-error, does not call
\* renderChart and throws nothing further.  It fails on a page without the
\* element 'chart-error', where no message is written.
C12_AnalyzeRendersOnlyGoodAnswer ==
    /\ ev.op = "analyzeFile" =>
          IF ev.stored = Null
          THEN /\ ev.sent = <<>>
               /\ ev.dom = <<"chartError:", "chartError:Not authenticated">>
          ELSE /\ Len(ev.sent) = 1
               /\ ev.dom = <<"chartError:">>
    /\ ev.op = "analyzeFile.resp" =>
          IF ev.out = "ok" /\ ev.body = "series"
          THEN /\ ev.dom[1] = "renderChart" /\ ev.bearer \in Tokens
               /\ chart.done
          ELSE Len(ev.dom) = 1 /\ ev.dom[1] \in AnalyzeErrors

\* C12: analyzeFile calls renderChart only when it read a token, the analyze
\* answer is 2xx and its body has an array in `series`; in every other case
\* it ends with one error message in #chart-error where the page has that
\* element and writes nothing where it has not, does not call renderChart
\* and throws nothing further.
C12_AnalyzeShowsErrorWhereElementExists ==
    /\ ev.op = "analyzeFile" =>
          /\ \A i \in 1..Len(ev.dom) : ev.dom[i] \notin {"renderChart", "throw"}
          /\ IF ev.stored = Null
             THEN /\ ev.sent = <<>>
                  /\ ev.dom = IF ev.errEl
                              THEN <<"chartError:", "chartError:Not authenticated">>
                              ELSE <<>>
             ELSE /\ Len(ev.sent) = 1
                  /\ ev.dom = IF ev.errEl THEN <<"chartError:">> ELSE <<>>
    /\ ev.op = "analyzeFile.resp" =>
          IF ev.out = "ok" /\ ev.body = "series"
          THEN /\ ev.dom[1] = "renderChart" /\ ev.bearer \in Tokens
               /\ chart.done
               /\ \A i \in 2..Len(ev.dom) : ev.dom[i] \in AnalyzeErrors
          ELSE /\ chart = NoChart
               /\ IF ev.errEl
                  THEN Len(ev.dom) = 1 /\ ev.dom[1] \in AnalyzeErrors
                  ELSE ev.dom = <<>>

\* C12 witness: a 2xx answer without an array in `series` gave the inline
\* error on a page that has the element 'chart-error', and no chart.
C12_Witness ==
    /\ ev.op = "analyzeFile.resp" /\ ev.out = "ok" /\ ev.body = "noseries"
    /\ ev.errEl
    /\ ev.dom = <<"chartError:Unexpected analyze response">>
    /\ chart = NoChart

\* C13: from any state, when logout returns the token is absent from
\* storage, a navigation to /auth has been issued and boot_id is as it was,
\* also when removing the token threw.
C13_LogoutClearsAndNavigates ==
    ev.op = "logout" =>
        /\ token = Null
        /\ ev.redir = <<"/auth">>
        /\ nav = "/auth"
        /\ boot_id = ev.prev

\* C13 (amended): when logout returns, a navigation to /auth has been issued
\* and boot_id is as it was; the token is absent from storage unless
\* removing it threw, and then the storage holds what it held before.
C13_LogoutNavigatesAndClearsUnlessThrown ==
    ev.op = "logout" =>
        /\ token = IF ev.out = "threw" THEN ev.stored ELSE Null
        /\ ev.redir = <<"/auth">>
        /\ ev.dom = <<>>
        /\ nav = "/auth"
        /\ boot_id = ev.prev

\* C13 witness: removeItem threw with a token stored and a request of another
\* operation in flight; the token is still stored and the page navigates.
C13_Witness ==
    /\ ev.op = "logout" /\ ev.out = "threw"
    /\ ev.stored = "t1" /\ token = "t1"
    /\ Pending > 0
    /\ nav = "/auth"

\* steps in which a run of checkAuth ends
GuardCompleted == ev.op \in GuardSteps /\ run.pc = "done"

\* the three outcomes of a run, read off its last step
EndsRedirectAuth == ev.redir = <<"/auth">> /\ ev.dom = <<>>

EndsRedirectUpload == ev.redir = <<"/upload">> /\ ev.dom = <<>>

EndsInPlace ==
    /\ ev.redir = <<>>
    /\ \/ path \in PublicPaths /\ ev.dom = <<"showForms">>
       \/ /\ path \in PrivatePaths
          /\ ev.op = "checkAuth.me" \/ (ev.op = "checkAuth.validate" /\ ev.out = "ok")

\* C17: a completed run of checkAuth on a recognised page ends in exactly one
\* of: a redirect to /auth, a redirect to /upload, or rendering in place
\* (forms revealed on the public page, private UI populated on a private page
\* after the token validated); never on a private page with the token removed
\* and no redirect.
C17_ThreeOutcomes ==
    (GuardCompleted /\ path \in PublicPaths \cup PrivatePaths) =>
        /\ EndsRedirectAuth \/ EndsRedirectUpload \/ EndsInPlace
        /\ ~(path \in PrivatePaths /\ token = Null /\ nav = Null)

\* C19: no step of the script stores or changes a token value: after a step
\* the token is the one stored before it, or absent; only steps of checkAuth
\* and logout remove it, and only the boot step of checkAuth writes boot_id.
C19_TokenOnlyRemoved ==
    ev.op # "env" =>
        /\ token = ev.stored \/ token = Null
        /\ token # ev.stored =>
              ev.op \in {"checkAuth.boot", "checkAuth.validate", "logout"}
        /\ boot_id # ev.prev => ev.op = "checkAuth.boot"

\* C19 witness: the boot step wrote boot_id and left the stored token alone.
C19_Witness ==
    /\ ev.op = "checkAuth.boot" /\ ev.out = "ok"
    /\ boot_id # ev.prev
    /\ ev.stored = "t1" /\ token = "t1"

-----------------------------------------------------------------------------
(* renderChart: properties of the context calls of a finished call *)

\* renderChart has run on an existing canvas
Drawn == chart.done /\ chart.canvas.present

\* the timestamps and values renderChart computes with
TimesOf(series) == [i \in 1..Len(series) |-> NumberOr0(series[i].t)]

ValuesOf(series) == [i \in 1..Len(series) |-> NumberOr0(series[i].value)]

\* the vertices of the last path begun: its moveTo and lineTo calls
LastBegin(calls) ==
    CHOOSE i \in 1..Len(calls) :
        /\ calls[i].op = "beginPath"
        /\ \A j \in (i + 1)..Len(calls) : calls[j].op # "beginPath"

IsVertex(c) == c.op \in {"moveTo", "lineTo"}

Polyline(calls) ==
    SelectSeq(SubSeq(calls, LastBegin(calls) + 1, Len(calls)), IsVertex)

\* C14: renderChart called with an empty series issues no call on the
\* canvas context at all.
C14_EmptySeriesNoCalls ==
    (chart.done /\ chart.series = <<>>) => chart.calls = <<>>

\* C14 (amended): with an empty series renderChart issues exactly one call on
\* the context of an existing canvas, clearRect(0, 0, w, h), and none when
\* the canvas is absent; it draws no axis, label or line.
C14_EmptySeriesOnlyClears ==
    (chart.done /\ chart.series = <<>>) =>
        chart.calls =
            IF chart.canvas.present
            THEN <<[op |-> "clearRect", text |-> "",
                    args |-> <<Num(0), Num(0), Num(chart.canvas.w),
                               Num(chart.canvas.h)>>]>>
            ELSE <<>>

\* C14 witness: an empty series on an existing canvas, one call issued.
C14_Witness ==
    /\ Drawn /\ chart.series = <<>>
    /\ Len(chart.calls) = 1 /\ chart.calls[1].op = "clearRect"

\* every element of the series is a point
AllPoints(series) == \A i \in 1..Len(series) : series[i].obj

\* all points of the series have the same timestamp
SameTimestamp(series) ==
    \A i, j \in 1..Len(series) : TimesOf(series)[i] = TimesOf(series)[j]

\* C15: for a non-empty series whose points all have the same timestamp,
\* renderChart runs to its final stroke and every vertex of the polyline, one
\* per point, has x = padL = 40, whatever the width of the canvas.
C15_SameTimestampAtLeftMargin ==
    (/\ Drawn /\ chart.series # <<>> /\ AllPoints(chart.series)
     /\ SameTimestamp(chart.series)) =>
        /\ ~chart.threw
        /\ chart.calls[Len(chart.calls)].op = "stroke"
        /\ Len(Polyline(chart.calls)) = Len(chart.series)
        /\ \A i \in 1..Len(chart.series) :
              Polyline(chart.calls)[i].args[1] = Num(40)

\* every timestamp renderChart computes with is finite
FiniteTimes(series) ==
    \A i \in 1..Len(series) : TimesOf(series)[i].k = "fin"

\* C15 (amended): the same, for a series whose common timestamp is finite.
C15_FiniteSameTimestampAtLeftMargin ==
    (/\ Drawn /\ chart.series # <<>> /\ AllPoints(chart.series)
     /\ SameTimestamp(chart.series) /\ FiniteTimes(chart.series)) =>
        /\ ~chart.threw
        /\ chart.calls[Len(chart.calls)].op = "stroke"
        /\ Len(Polyline(chart.calls)) = Len(chart.series)
        /\ \A i \in 1..Len(chart.series) :
              Polyline(chart.calls)[i].args[1] = Num(40)

\* C15 witness: two points at t = 5 with different values.
C15_Witness ==
    /\ Drawn /\ chart.canvas.w = 640
    /\ chart.series = <<Point(JNum(Num(5)), JNum(Num(0))),
                        Point(JNum(Num(5)), JNum(Num(1)))>>
    /\ Polyline(chart.calls)[2].args = <<Num(40), Num(10)>>

\* the mapping C16 states, for the i-th point of the series and the i-th
\* vertex of the polyline
MapsAsStated(i) ==
    LET times  == TimesOf(chart.series)
        values == ValuesOf(chart.series)
        vx     == Polyline(chart.calls)[i]
        w      == chart.canvas.w
        h      == chart.canvas.h
    IN  /\ vx.op = IF i = 1 THEN "moveTo" ELSE "lineTo"
        /\ times[i] = MinOf(times) => vx.args[1] = Num(40)
        /\ times[i] = MaxOf(times) => vx.args[1] = Num(w - 10)
        /\ values[i] = Num(0) => vx.args[2] = Num(h - 30)
        /\ values[i] = Num(1) => vx.args[2] = Num(10)

AllMapAsStated ==
    /\ Len(Polyline(chart.calls)) = Len(chart.series)
    /\ \A i \in 1..Len(chart.series) : MapsAsStated(i)

\* the spread of the timestamps, max - min
Spread(series) == Sub(MaxOf(TimesOf(series)), MinOf(TimesOf(series)))

\* C16: for a series with at least two distinct timestamps the point of
\* minimum timestamp is drawn at x = 40, the point of maximum timestamp at
\* x = w - 10, value 0 at y = h - 30, value 1 at y = 10, and the points are
\* visited in input order.
C16_SpanMapsToPlotArea ==
    (/\ Drawn /\ chart.series # <<>> /\ AllPoints(chart.series)
     /\ ~SameTimestamp(chart.series)) =>
        AllMapAsStated

\* C16 (amended): the same, for a series whose timestamps are finite and at
\* least 1e-9 apart between minimum and maximum, the difference being finite.
C16_WideSpanMapsToPlotArea ==
    (/\ Drawn /\ chart.series # <<>> /\ AllPoints(chart.series)
     /\ ~SameTimestamp(chart.series) /\ FiniteTimes(chart.series)
     /\ Spread(chart.series).k = "fin"
     /\ ~Less(Spread(chart.series), Dec(1, 1000000000))) =>
        AllMapAsStated

\* C16 witness: the series [{t:0,value:0},{t:10,value:1}] on a 300x150 canvas
\* gives the vertices (40, 120) then (290, 10).
C16_Witness ==
    /\ Drawn /\ chart.canvas.w = 300 /\ chart.canvas.h = 150
    /\ chart.series = <<Point(JNum(Num(0)), JNum(Num(0))),
                        Point(JNum(Num(10)), JNum(Num(1)))>>
    /\ Polyline(chart.calls) =
           <<[op |-> "moveTo", text |-> "", args |-> <<Num(40), Num(120)>>],
             [op |-> "lineTo", text |-> "", args |-> <<Num(290), Num(10)>>]>>

\* C18: with the backend's answers fixed, the chain of page loads driven by
\* checkAuth follows at most one redirect, and the run of checkAuth on the
\* page reached by that redirect ends without redirecting again.
C18_AtMostOneRedirect ==
    /\ hops <= 1
    /\ (hops = 1 /\ run.pc = "done") => nav = Null

\* C18 witness: a valid token on the public page was redirected once, to the
\* upload page, where the run ended in place.
C18_Witness ==
    /\ hops = 1 /\ path = "/upload" /\ run.pc = "done"
    /\ token \in valid /\ nav = Null

=============================================================================
